---------------------------- MODULE Spec2Model ----------------------------
(***************************************************************************)
(* Model of src/import_pl_2025_26.py: the importer that turns players.csv  *)
(* and teams.csv into one JSON document.                                   *)
(*                                                                         *)
(* Text is a sequence of one-character strings (<<"G","K">> is "GK"), so   *)
(* that strip, upper, split, startswith and int() are computed character   *)
(* by character.  A cell of a table is a record [k, n, d, s]:              *)
(*   k = "int"    Python int n                                             *)
(*   k = "float"  finite float n + d/10 (n >= 0, d in 0..9)                *)
(*   k = "inf"    float infinity                                           *)
(*   k = "nan"    float NaN, what pandas gives for an empty cell           *)
(*   k = "none"   None                                                     *)
(*   k = "str"    text s                                                   *)
(***************************************************************************)
EXTENDS Integers, Sequences, FiniteSets, TLC

VARIABLES
    pc,                \* position of main(): see PcValues
    input,             \* the files on disk: existence flags and the two tables
    cols,              \* the column names resolved by pick_col (lines 107-126)
    team_strength,     \* dict team key -> strength (line 128)
    team_names,        \* dict team key -> {name, short} (line 129)
    t_idx,             \* number of teams rows consumed by the loop of line 131
    out_players,       \* list of output records (line 140)
    missing_birthyear, \* counter (line 141)
    p_idx,             \* number of players rows consumed by the loop of line 143
    t_strength,        \* strength handed to generate_rating by the last row (line 159)
    out_file,          \* the output file: "absent" or the document written
    exc,               \* the exception that ended the run, "" when none
    sha256,            \* the digest function: seed -> first 12 hex digits
    arg,               \* argument of the pure function under study
    ret                \* its result

vars == <<pc, input, cols, team_strength, team_names, t_idx, out_players,
          missing_birthyear, p_idx, t_strength, out_file, exc, sha256, arg, ret>>

pipeline_vars == <<input, cols, team_strength, team_names, t_idx, out_players,
                   missing_birthyear, p_idx, t_strength, out_file, exc>>

-----------------------------------------------------------------------------
(* Values and text *)

IntV(n) == [k |-> "int", n |-> n, d |-> 0, s |-> <<>>]
FloatV(n, d) == [k |-> "float", n |-> n, d |-> d, s |-> <<>>]
InfV == [k |-> "inf", n |-> 0, d |-> 0, s |-> <<>>]
NaN == [k |-> "nan", n |-> 0, d |-> 0, s |-> <<>>]
None == [k |-> "none", n |-> 0, d |-> 0, s |-> <<>>]
StrV(s) == [k |-> "str", n |-> 0, d |-> 0, s |-> s]

\* pd.notna(x): neither NaN nor None
notna(x) == x.k \notin {"nan", "none"}

\* isinstance(x, (int, float))
IsNumber(x) == x.k \in {"int", "float", "inf", "nan"}

\* The text of a string literal: T("GK") = <<"G", "K">>
RECURSIVE T(_)
T(str) == IF str = "" THEN <<>> ELSE <<SubSeq(str, 1, 1)>> \o T(SubSeq(str, 2, Len(str)))

LowerLetters == T("abcdefghijklmnopqrstuvwxyz")
UpperLetters == T("ABCDEFGHIJKLMNOPQRSTUVWXYZ")
DecimalDigits == T("0123456789")
\* The characters U+00B9, U+00B2, U+00B3 and U+2074 (superscript digits), one
\* token each: str.isdigit() is true of them and int() rejects them.
SuperscriptDigits == {"U+00B9", "U+00B2", "U+00B3", "U+2074"}
Whitespace == {" ", "\t"}

IndexOf(c, seq) == CHOOSE i \in 1..Len(seq) : seq[i] = c
InSeq(c, seq) == \E i \in 1..Len(seq) : seq[i] = c
Chars(seq) == {seq[i] : i \in 1..Len(seq)}

UpperOf == [c \in Chars(LowerLetters) |-> UpperLetters[IndexOf(c, LowerLetters)]]
LowerOf == [c \in Chars(UpperLetters) |-> LowerLetters[IndexOf(c, UpperLetters)]]
DigitOf == [c \in Chars(DecimalDigits) |-> IndexOf(c, DecimalDigits) - 1]

\* str.upper(), one character
UpperChar(c) == IF c \in DOMAIN UpperOf THEN UpperOf[c] ELSE c
\* str.lower(), one character
LowerChar(c) == IF c \in DOMAIN LowerOf THEN LowerOf[c] ELSE c

RECURSIVE upper(_)
upper(s) == IF s = <<>> THEN <<>> ELSE <<UpperChar(Head(s))>> \o upper(Tail(s))

RECURSIVE lower(_)
lower(s) == IF s = <<>> THEN <<>> ELSE <<LowerChar(Head(s))>> \o lower(Tail(s))

RECURSIVE lstrip(_)
lstrip(s) == IF s # <<>> /\ Head(s) \in Whitespace THEN lstrip(Tail(s)) ELSE s

RECURSIVE rstrip(_)
rstrip(s) == IF s # <<>> /\ s[Len(s)] \in Whitespace
             THEN rstrip(SubSeq(s, 1, Len(s) - 1)) ELSE s

\* str.strip()
strip(s) == rstrip(lstrip(s))

\* str.startswith(prefix)
startswith(s, prefix) == Len(s) >= Len(prefix) /\ SubSeq(s, 1, Len(prefix)) = prefix

\* str.isdigit(): non-empty, every character a digit in the Unicode sense
isdigit(s) == s # <<>> /\ \A i \in 1..Len(s) : s[i] \in DOMAIN DigitOf \/ s[i] \in SuperscriptDigits

\* sep in s
Contains(s, sep) == \E i \in 1..Len(s) : s[i] = sep

\* s.split(sep)[0]: the text before the first sep
RECURSIVE FirstSegment(_, _)
FirstSegment(s, sep) == IF s = <<>> \/ Head(s) = sep THEN <<>>
                        ELSE <<Head(s)>> \o FirstSegment(Tail(s), sep)

RECURSIVE DigitsValue(_, _)
DigitsValue(s, acc) == IF s = <<>> THEN acc
                       ELSE DigitsValue(Tail(s), acc * 10 + DigitOf[Head(s)])

AllDecimal(s) == s # <<>> /\ \A i \in 1..Len(s) : s[i] \in DOMAIN DigitOf

Ok(v) == [ok |-> TRUE, v |-> v]
Raised == [ok |-> FALSE, v |-> 0]

\* int(text): optional surrounding whitespace, optional sign, decimal digits;
\* anything else raises ValueError.
ParseInt(s) ==
    LET t == strip(s)
        signed == t # <<>> /\ Head(t) \in {"+", "-"}
        body == IF signed THEN Tail(t) ELSE t
    IN IF AllDecimal(body)
       THEN Ok(IF signed /\ Head(t) = "-" THEN 0 - DigitsValue(body, 0) ELSE DigitsValue(body, 0))
       ELSE Raised

\* int(x) for a cell value: truncation for a float, OverflowError for inf,
\* ValueError for NaN and for text that is no integer literal, TypeError for None.
ToInt(x) == CASE x.k = "int" -> Ok(x.n)
              [] x.k = "float" -> Ok(x.n)
              [] x.k = "str" -> ParseInt(x.s)
              [] OTHER -> Raised

RECURSIVE NatStr(_)
NatStr(n) == IF n < 10 THEN <<DecimalDigits[n + 1]>>
             ELSE NatStr(n \div 10) \o <<DecimalDigits[(n % 10) + 1]>>

\* str(n) for an int
IntStr(n) == IF n < 0 THEN <<"-">> \o NatStr(0 - n) ELSE NatStr(n)

\* str(x) for a cell value
Str(x) == CASE x.k = "int" -> IntStr(x.n)
            [] x.k = "float" -> NatStr(x.n) \o <<".">> \o NatStr(x.d)
            [] x.k = "inf" -> <<"i", "n", "f">>
            [] x.k = "nan" -> <<"n", "a", "n">>
            [] x.k = "none" -> <<"N", "o", "n", "e">>
            [] OTHER -> x.s

\* bool(x): the truth value used by `x or ""`
Truthy(x) == CASE x.k = "int" -> x.n # 0
               [] x.k = "float" -> x.n # 0 \/ x.d # 0
               [] x.k = "none" -> FALSE
               [] x.k = "str" -> x.s # <<>>
               [] OTHER -> TRUE

-----------------------------------------------------------------------------
(* map_position, lines 23-43 *)

GK == T("GK")
DF == T("DF")
MF == T("MF")
FW == T("FW")
Tags == {GK, DF, MF, FW}
OverflowError == T("OverflowError")

\* {1: "GK", 2: "DF", 3: "MF", 4: "FW"}.get(n, "MF")
PositionCode(n) == IF n = 1 THEN GK ELSE IF n = 2 THEN DF ELSE IF n = 3 THEN MF
                   ELSE IF n = 4 THEN FW ELSE MF

GKNames == {T("GKP"), T("GK"), T("GOALKEEPER")}
DFNames == {T("DEF"), T("DF"), T("DEFENDER")}
MFNames == {T("MID"), T("MF"), T("MIDFIELDER")}
FWNames == {T("FWD"), T("FW"), T("FORWARD"), T("ST")}
LetterD == T("D")
LetterM == T("M")
LetterF == T("F")
LetterS == T("S")

\* Returns a tag, or OverflowError when int(pos_raw) raises it (line 25).
map_position(pos_raw) ==
    IF IsNumber(pos_raw) /\ notna(pos_raw)
    THEN IF ToInt(pos_raw).ok THEN PositionCode(ToInt(pos_raw).v) ELSE OverflowError
    ELSE LET p == upper(strip(IF Truthy(pos_raw) THEN Str(pos_raw) ELSE <<>>))
         IN IF p \in GKNames THEN GK
            ELSE IF p \in DFNames THEN DF
            ELSE IF p \in MFNames THEN MF
            ELSE IF p \in FWNames THEN FW
            ELSE IF startswith(p, GK) THEN GK
            ELSE IF startswith(p, LetterD) THEN DF
            ELSE IF startswith(p, LetterM) THEN MF
            ELSE IF startswith(p, LetterF) \/ startswith(p, LetterS) THEN FW
            ELSE MF

-----------------------------------------------------------------------------
(* derive_birth_year, lines 46-65 *)

ValueError == [k |-> "raise", n |-> 0, d |-> 0, s |-> T("ValueError")]

YearKeys == <<T("birthYear"), T("birth_year"), T("year_of_birth"), T("dob_year")>>
DateKeys == <<T("birth_date"), T("birthdate"), T("date_of_birth"), T("dob")>>
Separators == <<"-", "/", ".">>

\* Lines 47-52: the first year field that is present, not NaN and accepted by
\* int(); None when there is none.
RECURSIVE YearFieldScan(_, _)
YearFieldScan(row, keys) ==
    IF keys = <<>> THEN None
    ELSE IF Head(keys) \in DOMAIN row /\ notna(row[Head(keys)]) /\ ToInt(row[Head(keys)]).ok
         THEN IntV(ToInt(row[Head(keys)]).v)
         ELSE YearFieldScan(row, Tail(keys))

\* Lines 57-62: the first separator that occurs in s (of length >= 4) and whose
\* first segment int() accepts; None when there is none.
RECURSIVE SeparatorScan(_, _)
SeparatorScan(s, seps) ==
    IF seps = <<>> THEN None
    ELSE IF Contains(s, Head(seps)) /\ Len(s) >= 4 /\ ParseInt(FirstSegment(s, Head(seps))).ok
         THEN IntV(ParseInt(FirstSegment(s, Head(seps))).v)
         ELSE SeparatorScan(s, Tail(seps))

\* Lines 55-64 for one date field after the other.  The int(s) of line 64 is
\* outside any try: when it raises, the function raises.
RECURSIVE DateFieldScan(_, _)
DateFieldScan(row, keys) ==
    IF keys = <<>> THEN None
    ELSE IF Head(keys) \in DOMAIN row /\ notna(row[Head(keys)])
         THEN LET s == Str(row[Head(keys)])
                  bySep == SeparatorScan(s, Separators)
              IN IF bySep # None THEN bySep
                 ELSE IF Len(s) = 4 /\ isdigit(s)
                      THEN (IF ParseInt(s).ok THEN IntV(ParseInt(s).v) ELSE ValueError)
                      ELSE DateFieldScan(row, Tail(keys))
         ELSE DateFieldScan(row, Tail(keys))

\* Returns IntV(year), None, or ValueError when line 64 raises.
derive_birth_year(row) ==
    LET byYear == YearFieldScan(row, YearKeys)
    IN IF byYear # None THEN byYear ELSE DateFieldScan(row, DateKeys)

-----------------------------------------------------------------------------
(* stable_int, generate_rating, generate_development, lines 10-12 and 68-82 *)

HexDigits == T("0123456789abcdef")
HexOf == [c \in Chars(HexDigits) |-> IndexOf(c, HexDigits) - 1]

\* int(h, 16) % mod for a text h of hex digits.  The 48-bit value of twelve hex
\* digits is reduced digit by digit, which gives the same residue.
RECURSIVE HexMod(_, _, _)
HexMod(h, mod, acc) ==
    IF h = <<>> THEN acc
    ELSE HexMod(Tail(h), mod, (acc * 16 + HexOf[Head(h)]) % mod)

\* sha256[seed] is hexdigest()[:12] of the seed's UTF-8 bytes.
stable_int(seed, mod) == HexMod(sha256[seed], mod, 0)

RatingSuffix == T(":rating")
DevSuffix == T(":dev")
\* f"{player_id}:rating" and f"{player_id}:dev"
RatingSeed(player_id) == player_id \o RatingSuffix
DevSeed(player_id) == player_id \o DevSuffix

Max(a, b) == IF a >= b THEN a ELSE b
Min(a, b) == IF a <= b THEN a ELSE b

\* {1: 178, 2: 188, 3: 198, 4: 210, 5: 222}[ts]
TeamBase(ts) == IF ts = 1 THEN 178 ELSE IF ts = 2 THEN 188 ELSE IF ts = 3 THEN 198
                ELSE IF ts = 4 THEN 210 ELSE 222

\* {"GK": -4, "DF": -2, "MF": 0, "FW": +2}.get(pos, 0)
PosBias(pos) == IF pos = GK THEN -4 ELSE IF pos = DF THEN -2 ELSE IF pos = MF THEN 0
                ELSE IF pos = FW THEN 2 ELSE 0

\* Line 73: the sum before the clamp of line 74.
RawRating(player_id, strength, pos) ==
    TeamBase(Max(1, Min(strength, 5))) + PosBias(pos) + stable_int(RatingSeed(player_id), 25)

\* generate_rating without the upper clamp of line 74
generate_rating_unclamped(player_id, strength, pos) ==
    Max(120, RawRating(player_id, strength, pos))

\* The parameter team_strength is called strength here: team_strength is the
\* dict of main.
generate_rating(player_id, strength, pos) ==
    Max(120, Min(RawRating(player_id, strength, pos), 238))

\* Line 79 with 8 for 80
RawDevelopment_low(player_id) == 8 + stable_int(DevSeed(player_id), 120)

\* Line 79
RawDevelopment(player_id) == 80 + stable_int(DevSeed(player_id), 120)

\* Lines 80-81: dev after the goalkeeper adjustment, before the clamp of line 82.
AdjustedDevelopment(player_id, pos) ==
    IF pos = GK THEN Max(60, RawDevelopment(player_id) - 10) ELSE RawDevelopment(player_id)

\* generate_development with a result that depends on the call's place in the
\* run, as a stateful random generator in place of stable_int would make it
generate_development_stateful(player_id, pos) ==
    Max(0, Min(AdjustedDevelopment(player_id, pos) + p_idx, 250))

generate_development(player_id, pos) ==
    Max(0, Min(AdjustedDevelopment(player_id, pos), 250))

-----------------------------------------------------------------------------
(* Bounds *)

MaxCode == 6            \* numeric position codes run over -1..MaxCode
MaxTextLen == 3         \* free position texts have at most this many characters
MaxPresentFields == 2   \* birth fields present in one row
StrengthMargin == 4     \* team strengths run over 1-StrengthMargin..5+StrengthMargin
MaxDigest == 149        \* digests enumerated per seed: 0..MaxDigest
MaxPlayerRows == 2      \* rows of players.csv
MaxTeamRows == 1        \* rows of teams.csv
MaxHashKey == 1         \* digest functions tried by a run of main: 0..MaxHashKey

\* All texts over alphabet A of length at most n
RECURSIVE TextsUpTo(_, _)
TextsUpTo(A, n) == IF n = 0 THEN {<<>>}
                   ELSE TextsUpTo(A, n - 1) \cup
                        {<<c>> \o t : c \in A, t \in {u \in TextsUpTo(A, n - 1) : Len(u) = n - 1}}

\* The pipeline's variables while one function is studied on its own
Parked == /\ input = <<>> /\ cols = <<>> /\ team_strength = <<>> /\ team_names = <<>>
          /\ t_idx = 0 /\ out_players = <<>> /\ missing_birthyear = 0 /\ p_idx = 0
          /\ t_strength = 0 /\ out_file = "absent" /\ exc = ""

-----------------------------------------------------------------------------
(* map_position on its own *)

PositionAlphabet == {"G", "K", "D", "M", "F", "S", "W", "T", "X", "g", "1", " "}

PositionWords == {T("GKP"), T("Goalkeeper"), T(" goalkeeper "), T("DEF"), T("Defender"),
                  T("MID"), T("midfielder"), T("FWD"), T("Forward"), T("striker"),
                  T("GKX"), T("Sweeper"), T("Wing"), T("nan"), T("\tfw")}

PositionInputs ==
    {IntV(n) : n \in -1..MaxCode} \cup {FloatV(n, d) : n \in 0..MaxCode, d \in {0, 5}}
    \cup {InfV, NaN, None}
    \cup {StrV(t) : t \in TextsUpTo(PositionAlphabet, MaxTextLen) \cup PositionWords}

PositionInit == pc = "call" /\ arg \in PositionInputs /\ ret = <<>> /\ sha256 = <<>> /\ Parked

CallMapPosition ==
    /\ pc = "call"
    /\ ret' = map_position(arg)
    /\ pc' = "return"
    /\ UNCHANGED <<arg, sha256, pipeline_vars>>

SpecPosition == PositionInit /\ [][CallMapPosition]_vars

-----------------------------------------------------------------------------
(* derive_birth_year on its own *)

BirthKeys == {YearKeys[i] : i \in 1..Len(YearKeys)} \cup {DateKeys[i] : i \in 1..Len(DateKeys)}

BirthCells == {NaN, IntV(1998), FloatV(1997, 5), InfV, StrV(T("1996")), StrV(T("abc")),
               StrV(T("2001-05-03")), StrV(T("03/05/2001")), StrV(T("12.5/2001")),
               StrV(T("May-2001")), StrV(T("1-2")), StrV(T(" 2002 .5")),
               StrV(<<"U+00B9", "U+00B2", "U+00B3", "U+2074">>)}

BirthRows == UNION {[K -> BirthCells] : K \in {S \in SUBSET BirthKeys : Cardinality(S) <= MaxPresentFields}}

BirthInit == pc = "call" /\ arg \in BirthRows /\ ret = None /\ sha256 = <<>> /\ Parked

CallDeriveBirthYear ==
    /\ pc = "call"
    /\ ret' = derive_birth_year(arg)
    /\ pc' = "return"
    /\ UNCHANGED <<arg, sha256, pipeline_vars>>

SpecBirth == BirthInit /\ [][CallDeriveBirthYear]_vars

-----------------------------------------------------------------------------
(* generate_rating and generate_development on their own *)

\* Twelve hex digits: a fixed high part and the three low digits of n
Digest(n) == T("9f86d0818") \o <<HexDigits[((n \div 256) % 16) + 1],
                                 HexDigits[((n \div 16) % 16) + 1], HexDigits[(n % 16) + 1]>>

Digests == {Digest(n) : n \in 0..MaxDigest}

GenPlayerIds == {T("7"), T("p-10")}
GenPositions == Tags \cup {T("XX")}

GenArgs ==
    {[fn |-> "generate_rating", player_id |-> i, strength |-> t, pos |-> p] :
        i \in GenPlayerIds, t \in (1 - StrengthMargin)..(5 + StrengthMargin), p \in GenPositions}
    \cup {[fn |-> "generate_development", player_id |-> i, strength |-> 0, pos |-> p] :
        i \in GenPlayerIds, p \in GenPositions}

GenSeed(a) == IF a.fn = "generate_rating" THEN RatingSeed(a.player_id) ELSE DevSeed(a.player_id)

GenInit == /\ pc = "call" /\ arg \in GenArgs /\ ret = 0 /\ Parked
           /\ sha256 \in [{GenSeed(arg)} -> Digests]

CallGenerateRating ==
    /\ pc = "call" /\ arg.fn = "generate_rating"
    /\ ret' = generate_rating(arg.player_id, arg.strength, arg.pos)
    /\ pc' = "return"
    /\ UNCHANGED <<arg, sha256, pipeline_vars>>

CallGenerateDevelopment ==
    /\ pc = "call" /\ arg.fn = "generate_development"
    /\ ret' = generate_development(arg.player_id, arg.pos)
    /\ pc' = "return"
    /\ UNCHANGED <<arg, sha256, pipeline_vars>>

GenNext == CallGenerateRating \/ CallGenerateDevelopment

SpecGen == GenInit /\ [][GenNext]_vars

-----------------------------------------------------------------------------
(* pick_col, lines 15-20 *)

\* The None that pick_col returns: a text no header can be
NotFound == <<"None">>

\* The keys of the dict {c.lower(): c for c in df.columns}, in column order
LowerAll(columns) == [i \in 1..Len(columns) |-> lower(columns[i])]

\* cols[l] of that dict: the last column whose lower-cased name is l
LastNamed(columns, low, l) ==
    columns[CHOOSE i \in 1..Len(columns) :
               low[i] = l /\ \A j \in (i + 1)..Len(columns) : low[j] # l]

\* Lines 17-20
RECURSIVE FirstCandidate(_, _, _)
FirstCandidate(columns, low, candidates) ==
    IF candidates = <<>> THEN NotFound
    ELSE IF \E i \in 1..Len(columns) : low[i] = lower(Head(candidates))
         THEN LastNamed(columns, low, lower(Head(candidates)))
         ELSE FirstCandidate(columns, low, Tail(candidates))

pick_col(columns, candidates) == FirstCandidate(columns, LowerAll(columns), candidates)

\* The candidate lists of lines 107-109 and 118-126
PlayerIdNames == <<T("player_id"), T("id"), T("element"), T("element_id")>>
TeamFkNames == <<T("team_code"), T("team"), T("team_id")>>
PosNames == <<T("position"), T("element_type"), T("pos")>>
WebNames == <<T("web_name"), T("name")>>
FirstNames == <<T("first_name")>>
SecondNames == <<T("second_name"), T("last_name"), T("surname")>>
TeamCodeNames == <<T("code"), T("team_code")>>
TeamIdNames == <<T("id"), T("team_id")>>
TeamNameNames == <<T("name")>>
TeamShortNames == <<T("short_name"), T("short")>>
StrengthNames == <<T("strength"), T("overall_strength")>>

\* Lines 107-109 and 118-126
ResolvedColumns(players, teams) ==
    [player_id_col |-> pick_col(players.columns, PlayerIdNames),
     team_fk_col |-> pick_col(players.columns, TeamFkNames),
     pos_col |-> pick_col(players.columns, PosNames),
     web_col |-> pick_col(players.columns, WebNames),
     first_col |-> pick_col(players.columns, FirstNames),
     second_col |-> pick_col(players.columns, SecondNames),
     team_code_col |-> pick_col(teams.columns, TeamCodeNames),
     team_id_col |-> pick_col(teams.columns, TeamIdNames),
     team_name_col |-> pick_col(teams.columns, TeamNameNames),
     team_short_col |-> pick_col(teams.columns, TeamShortNames),
     strength_col |-> pick_col(teams.columns, StrengthNames)]

Unresolved == [player_id_col |-> NotFound, team_fk_col |-> NotFound, pos_col |-> NotFound,
               web_col |-> NotFound, first_col |-> NotFound, second_col |-> NotFound,
               team_code_col |-> NotFound, team_id_col |-> NotFound, team_name_col |-> NotFound,
               team_short_col |-> NotFound, strength_col |-> NotFound]

\* Lines 111-114 only: the check of pos_col is left out
RequiredColumnMissing_NoPos(c) ==
    c.player_id_col = NotFound \/ c.team_fk_col = NotFound

\* Lines 111-116: a required column is missing
RequiredColumnMissing(c) ==
    c.player_id_col = NotFound \/ c.team_fk_col = NotFound \/ c.pos_col = NotFound

-----------------------------------------------------------------------------
(* main, lines 85-196 *)

EmptyTable == [columns |-> <<>>, rows |-> <<>>]
EmptyDict == <<>>
NoFile == [exists |-> FALSE, missing |-> 0, teams |-> EmptyDict, players |-> <<>>]

\* d[key] = value
DictSet(d, key, value) == [x \in DOMAIN d \cup {key} |-> IF x = key THEN value ELSE d[x]]
\* d.get(key, default)
DictGet(d, key, default) == IF key \in DOMAIN d THEN d[key] ELSE default

\* Where the run continues once t teams rows and p players rows are consumed
LoopPc(t, p) == IF t < Len(input.teams.rows) THEN "teams"
                ELSE IF p < Len(input.players.rows) THEN "players" ELSE "write"

Exit(how, e) == pc' = how /\ exc' = e

\* Lines 99-105: both files must exist, then both are read
CheckFiles ==
    /\ pc = "start"
    /\ IF ~input.players_exists \/ ~input.teams_exists
       THEN Exit("exit", "SystemExit")
       ELSE pc' = "resolve" /\ exc' = exc
    /\ UNCHANGED <<input, cols, team_strength, team_names, t_idx, out_players,
                   missing_birthyear, p_idx, t_strength, out_file, sha256, arg, ret>>

\* Lines 107-129 and 140-141
ResolveColumns ==
    /\ pc = "resolve"
    /\ cols' = ResolvedColumns(input.players, input.teams)
    /\ IF RequiredColumnMissing(cols')
       THEN Exit("exit", "SystemExit")
       ELSE pc' = LoopPc(0, 0) /\ exc' = exc
    /\ UNCHANGED <<input, team_strength, team_names, t_idx, out_players,
                   missing_birthyear, p_idx, t_strength, out_file, sha256, arg, ret>>

\* Line 132: the key of a teams row; r[None] raises KeyError
TeamKeyColumn == IF cols.team_code_col # NotFound THEN cols.team_code_col ELSE cols.team_id_col

\* Line 133: the strength of a teams row, Raised when int() raises
TeamRowStrength(r) ==
    IF cols.strength_col # NotFound /\ notna(r[cols.strength_col])
    THEN ToInt(r[cols.strength_col])
    ELSE Ok(3)

\* Lines 135-138
TeamRowNames(r, key) ==
    [name |-> IF cols.team_name_col # NotFound THEN Str(r[cols.team_name_col]) ELSE Str(key),
     short |-> IF cols.team_short_col # NotFound THEN StrV(Str(r[cols.team_short_col])) ELSE None]

\* Lines 131-138, one iteration
TeamRow ==
    /\ pc = "teams"
    /\ LET r == input.teams.rows[t_idx + 1]
       IN IF TeamKeyColumn = NotFound
          THEN Exit("crash", "KeyError") /\ UNCHANGED <<team_strength, team_names, t_idx>>
          ELSE IF ~TeamRowStrength(r).ok
          THEN Exit("crash", IF r[cols.strength_col].k = "inf" THEN "OverflowError" ELSE "ValueError")
               /\ UNCHANGED <<team_strength, team_names, t_idx>>
          ELSE /\ team_strength' = DictSet(team_strength, r[TeamKeyColumn], TeamRowStrength(r).v)
               /\ team_names' = DictSet(team_names, r[TeamKeyColumn], TeamRowNames(r, r[TeamKeyColumn]))
               /\ t_idx' = t_idx + 1
               /\ pc' = LoopPc(t_idx + 1, 0)
               /\ exc' = exc
    /\ UNCHANGED <<input, cols, out_players, missing_birthyear, p_idx, t_strength,
                   out_file, sha256, arg, ret>>

PlayerPrefix == T("Player ")
NationalityColumn == T("nationality")

\* Lines 152-157
ResolveName(r, pid) ==
    IF cols.web_col # NotFound /\ notna(r[cols.web_col])
    THEN strip(Str(r[cols.web_col]))
    ELSE LET fn == IF cols.first_col # NotFound /\ notna(r[cols.first_col])
                   THEN strip(Str(r[cols.first_col])) ELSE <<>>
             sn == IF cols.second_col # NotFound /\ notna(r[cols.second_col])
                   THEN strip(Str(r[cols.second_col])) ELSE <<>>
         IN IF fn # <<>> \/ sn # <<>> THEN strip(fn \o <<" ">> \o sn)
            ELSE PlayerPrefix \o pid

\* Line 159
LookupStrength(team_key) == DictGet(team_strength, team_key, 3)

\* Lines 149-150 without the test of line 149
CountMissing_always(by) == missing_birthyear + 1

\* Lines 149-150
CountMissing(by) == IF by = None THEN missing_birthyear + 1 ELSE missing_birthyear

\* Line 163
Nationality(r) ==
    IF \E i \in 1..Len(input.players.columns) : input.players.columns[i] = NationalityColumn
    THEN r[NationalityColumn] ELSE None

\* Lines 144-145 and 152-175: the record of one row, given the pos of line 146
\* and the by of line 148
PlayerRecord(r, pos, by) ==
    LET pid == Str(r[cols.player_id_col])
    IN [name |-> ResolveName(r, pid),
        birthYear |-> by,
        nationality |-> Nationality(r),
        position |-> pos,
        rating |-> generate_rating(pid, LookupStrength(r[cols.team_fk_col]), pos),
        development |-> generate_development(pid, pos),
        source |-> [playerId |-> pid, teamKey |-> Str(r[cols.team_fk_col])]]

\* Line 165 as out_players.insert(0, record)
AppendPlayer_front(list, record) == <<record>> \o list

\* Line 165: out_players.append(record)
AppendPlayer(list, record) == Append(list, record)

\* Lines 143-175, one iteration
PlayerRow ==
    /\ pc = "players"
    /\ LET r == input.players.rows[p_idx + 1]
           pos == map_position(r[cols.pos_col])
           by == derive_birth_year(r)
       IN IF RequiredColumnMissing(cols)
          THEN Exit("crash", "KeyError")
               /\ UNCHANGED <<out_players, missing_birthyear, p_idx, t_strength>>
          ELSE IF pos = OverflowError
          THEN Exit("crash", "OverflowError")
               /\ UNCHANGED <<out_players, missing_birthyear, p_idx, t_strength>>
          ELSE IF by = ValueError
          THEN Exit("crash", "ValueError")
               /\ UNCHANGED <<out_players, missing_birthyear, p_idx, t_strength>>
          ELSE /\ missing_birthyear' = CountMissing(by)
               /\ t_strength' = LookupStrength(r[cols.team_fk_col])
               /\ out_players' = AppendPlayer(out_players, PlayerRecord(r, pos, by))
               /\ p_idx' = p_idx + 1
               /\ pc' = LoopPc(t_idx, p_idx + 1)
               /\ exc' = exc
    /\ UNCHANGED <<input, cols, team_strength, team_names, t_idx, out_file, sha256, arg, ret>>

\* Lines 177-195: the document is assembled and written in one go
WriteOutput ==
    /\ pc = "write"
    /\ out_file' = [exists |-> TRUE, missing |-> missing_birthyear,
                    teams |-> team_names, players |-> out_players]
    /\ pc' = "done"
    /\ UNCHANGED <<input, cols, team_strength, team_names, t_idx, out_players,
                   missing_birthyear, p_idx, t_strength, exc, sha256, arg, ret>>

Next == CheckFiles \/ ResolveColumns \/ TeamRow \/ PlayerRow \/ WriteOutput

-----------------------------------------------------------------------------
(* The files main reads *)

\* The row of a table: cells[i] under columns[i]
MkRow(columns, cells) ==
    [c \in {columns[i] : i \in 1..Len(columns)} |-> cells[CHOOSE i \in 1..Len(columns) : columns[i] = c]]

\* All sequences of at most n elements of S
RECURSIVE SeqsUpTo(_, _)
SeqsUpTo(S, n) == IF n = 0 THEN {<<>>}
                  ELSE SeqsUpTo(S, n - 1) \cup
                       {Append(q, x) : q \in {u \in SeqsUpTo(S, n - 1) : Len(u) = n - 1}, x \in S}

Tables(columns, cellRows, n) ==
    {[columns |-> columns, rows |-> q] : q \in SeqsUpTo({MkRow(columns, c) : c \in cellRows}, n)}

PlayersFull == <<T("Player_ID"), T("team_code"), T("position"), T("web_name"), T("first_name"),
                 T("second_name"), T("birth_year"), T("dob"), T("nationality")>>
PlayersFullRows == {
    <<IntV(7), IntV(1), IntV(1), StrV(T("Raya")), StrV(T("David")), StrV(T("Raya")),
      IntV(1995), NaN, StrV(T("ESP"))>>,
    <<IntV(7), IntV(2), StrV(T("mid")), NaN, StrV(T(" Bukayo")), NaN,
      NaN, StrV(T("2001-09-05")), NaN>>,
    <<IntV(8), IntV(9), StrV(T("striker")), NaN, NaN, NaN, NaN, NaN, NaN>>,
    <<IntV(8), IntV(1), FloatV(2, 0), StrV(T(" ")), StrV(T("Ben")), StrV(T("White")),
      StrV(T("abc")), StrV(T("1997")), StrV(T("ENG"))>>,
    <<IntV(7), StrV(T("1")), StrV(T("GK")), NaN, NaN, NaN, NaN, NaN, NaN>>}

\* Rows on which line 146 or line 148 raises, and one on which neither does
PlayersRaising == <<T("id"), T("team"), T("pos"), T("surname"), T("birthdate")>>
PlayersRaisingRows == {
    <<IntV(9), IntV(1), InfV, StrV(T("Rice")), NaN>>,
    <<IntV(9), IntV(1), IntV(3), StrV(T("Odegaard")), StrV(<<"U+00B9", "U+00B2", "U+00B3", "U+2074">>)>>,
    <<IntV(9), IntV(2), IntV(3), NaN, StrV(T("1998.12.17"))>>}

PlayersMinimal == <<T("ID"), T("Team"), T("Element_Type")>>
PlayersMinimalRows == {<<IntV(10), IntV(1), IntV(4)>>, <<StrV(T("p-11")), IntV(2), NaN>>}

PlayersNoId == <<T("name"), T("team"), T("pos")>>
PlayersNoTeam == <<T("id"), T("pos"), T("name")>>
PlayersNoPos == <<T("id"), T("team"), T("name")>>

PlayerTables ==
    Tables(PlayersFull, PlayersFullRows, MaxPlayerRows)
    \cup Tables(PlayersRaising, PlayersRaisingRows, MaxPlayerRows)
    \cup Tables(PlayersMinimal, PlayersMinimalRows, MaxPlayerRows)
    \cup Tables(PlayersNoId, {<<StrV(T("Saka")), IntV(1), StrV(T("MID"))>>}, MaxPlayerRows)
    \cup Tables(PlayersNoTeam, {<<IntV(7), StrV(T("MID")), StrV(T("Saka"))>>}, MaxPlayerRows)
    \cup Tables(PlayersNoPos, {<<IntV(7), IntV(1), StrV(T("Saka"))>>}, MaxPlayerRows)

TeamsFull == <<T("code"), T("id"), T("name"), T("short_name"), T("Strength")>>
TeamsFullRows == {
    <<IntV(1), IntV(101), StrV(T("Arsenal")), StrV(T("ARS")), IntV(4)>>,
    <<IntV(2), IntV(102), StrV(T("Brentford")), StrV(T("BRE")), NaN>>,
    <<IntV(1), IntV(103), StrV(T("Villa")), NaN, IntV(9)>>,
    <<IntV(2), IntV(104), StrV(T("Fulham")), StrV(T("FUL")), StrV(T("high"))>>}

TeamsNoStrength == <<T("team_id"), T("name")>>
TeamsNoKey == <<T("name"), T("strength")>>

TeamTables ==
    Tables(TeamsFull, TeamsFullRows, MaxTeamRows)
    \cup Tables(TeamsNoStrength, {<<IntV(1), StrV(T("Arsenal"))>>}, MaxTeamRows)
    \cup Tables(TeamsNoKey, {<<StrV(T("Arsenal")), IntV(4)>>}, MaxTeamRows)

Inputs ==
    {[players_exists |-> TRUE, teams_exists |-> TRUE, players |-> p, teams |-> t] :
        p \in PlayerTables, t \in TeamTables}
    \cup {[players_exists |-> pe, teams_exists |-> te, players |-> EmptyTable, teams |-> EmptyTable] :
        pe \in BOOLEAN, te \in {FALSE}}
    \cup {[players_exists |-> FALSE, teams_exists |-> TRUE, players |-> EmptyTable, teams |-> EmptyTable]}

\* The seeds main hashes on this input: two for each player id
Seeds(in) ==
    LET c == pick_col(in.players.columns, PlayerIdNames)
    IN IF c = NotFound THEN {}
       ELSE UNION {{RatingSeed(Str(in.players.rows[i][c])), DevSeed(Str(in.players.rows[i][c]))} :
                     i \in 1..Len(in.players.rows)}

SeedChars == T("0123456789abcdefghijklmnopqrstuvwxyz:-.")
SeedCode == [c \in Chars(SeedChars) |-> IndexOf(c, SeedChars)]

RECURSIVE Checksum(_, _)
Checksum(s, acc) == IF s = <<>> THEN acc
                    ELSE Checksum(Tail(s), (acc * 31 + SeedCode[Head(s)]) % 4096)

\* SHA-256 is not computed.  A run of main sees one function from seeds to
\* digests, the same at every call; the runs range over a family of such
\* functions, one for each key.
DigestFunction(seeds, key) ==
    [s \in seeds |-> Digest((Checksum(s, key) * (2 * key + 1) + 24 * key) % 4096)]

Init ==
    /\ pc = "start"
    /\ input \in Inputs
    /\ cols = Unresolved
    /\ team_strength = EmptyDict
    /\ team_names = EmptyDict
    /\ t_idx = 0
    /\ out_players = <<>>
    /\ missing_birthyear = 0
    /\ p_idx = 0
    /\ t_strength = 0
    /\ out_file = NoFile
    /\ exc = ""
    /\ sha256 \in {DigestFunction(Seeds(input), key) : key \in 0..MaxHashKey}
    /\ arg = <<>>
    /\ ret = <<>>

Spec == Init /\ [][Next]_vars

-----------------------------------------------------------------------------
(* Properties *)

Records == 1..Len(out_players)

\* C1: generate_rating returns an integer in [120,238] and generate_development
\* one in [0,250] for every player id, position tag and team strength, the
\* strengths outside [1,5] included; so do the rating and the development of
\* every record appended to out_players.
C1_Ranges ==
    /\ pc = "return" =>
         IF arg.fn = "generate_rating" THEN ret \in 120..238 ELSE ret \in 0..250
    /\ \A i \in Records : out_players[i].rating \in 120..238 /\ out_players[i].development \in 0..250

\* A strength outside [1,5] whose sum of line 73 the clamp of line 74 cuts to 238
C1_Witness ==
    /\ pc = "return" /\ arg.fn = "generate_rating" /\ arg.strength > 5
    /\ RawRating(arg.player_id, arg.strength, arg.pos) > 238 /\ ret = 238

\* The required column has none of the candidate names, whatever the case
C2_NoCandidate(columns, names) ==
    \A i \in 1..Len(columns), j \in 1..Len(names) : lower(columns[i]) # names[j]

C2_Fatal ==
    \/ ~input.players_exists
    \/ ~input.teams_exists
    \/ C2_NoCandidate(input.players.columns, PlayerIdNames)
    \/ C2_NoCandidate(input.players.columns, TeamFkNames)
    \/ C2_NoCandidate(input.players.columns, PosNames)

\* C2: when a file is missing or a required players column cannot be resolved,
\* main ends before any teams or players row is processed and writes nothing;
\* the output file is written only once every players row has been processed.
C2_NoPartialOutput ==
    /\ C2_Fatal => /\ pc \in {"start", "resolve", "exit"}
                   /\ t_idx = 0 /\ p_idx = 0 /\ out_players = <<>> /\ ~out_file.exists
    /\ out_file.exists => /\ pc = "done" /\ exc = ""
                          /\ p_idx = Len(input.players.rows)
                          /\ Len(out_file.players) = Len(input.players.rows)

\* Both files exist and hold rows, and main has stopped at line 111-116
C2_Witness ==
    /\ pc = "exit" /\ input.players_exists /\ input.teams_exists
    /\ Len(input.players.rows) > 0 /\ Len(input.teams.rows) > 0 /\ ~out_file.exists

\* The strength the claim gives a team key: that of the last teams row with the
\* key, 3 when there is no such row, no strength column, no value or no integer
C3_Strength(team_key) ==
    LET rows == input.teams.rows
        hits == {i \in 1..Len(rows) : rows[i][TeamKeyColumn] = team_key}
        last == CHOOSE i \in hits : \A j \in hits : j <= i
    IN IF hits = {} \/ cols.strength_col = NotFound THEN 3
       ELSE IF notna(rows[last][cols.strength_col]) /\ ToInt(rows[last][cols.strength_col]).ok
            THEN ToInt(rows[last][cols.strength_col]).v
            ELSE 3

\* C3: an unresolved team strength is never fatal and defaults to 3: no strength
\* column, a strength that is absent or no integer, a team key without a team.
\* The teams loop ends early only for want of a key column, and the strength
\* handed to generate_rating is the one stated above.
C3_UnresolvedStrengthIsThree ==
    /\ (pc = "crash" /\ t_idx < Len(input.teams.rows)) => exc = "KeyError"
    /\ p_idx > 0 => t_strength = C3_Strength(input.players.rows[p_idx][cols.team_fk_col])

C5_Rule(x) ==
    IF x.k \in {"nan", "none"} THEN MF
    ELSE IF x.k \in {"int", "float", "inf"}
    THEN (IF x.k # "inf" /\ x.n = 1 THEN GK ELSE IF x.k # "inf" /\ x.n = 2 THEN DF
          ELSE IF x.k # "inf" /\ x.n = 4 THEN FW ELSE MF)
    ELSE LET p == upper(strip(x.s))
         IN IF p \in {T("GK"), T("GKP"), T("GOALKEEPER")} THEN GK
            ELSE IF p \in {T("DEF"), T("DF"), T("DEFENDER")} THEN DF
            ELSE IF p \in {T("MID"), T("MF"), T("MIDFIELDER")} THEN MF
            ELSE IF p \in {T("FWD"), T("FW"), T("FORWARD"), T("ST")} THEN FW
            ELSE IF Len(p) >= 2 /\ p[1] = "G" /\ p[2] = "K" THEN GK
            ELSE IF Len(p) >= 1 /\ p[1] = "D" THEN DF
            ELSE IF Len(p) >= 1 /\ p[1] = "M" THEN MF
            ELSE IF Len(p) >= 1 /\ p[1] \in {"F", "S"} THEN FW
            ELSE MF

\* C5: map_position is total, returns one of GK, DF, MF, FW, and the tag is the
\* one of the ordered rule list: the numeric codes, the synonym table, the
\* prefix rules, MF for the rest.
C5_TotalWithRuleOrder ==
    pc = "return" => ret \in Tags /\ ret = C5_Rule(arg)

\* The claim's date strategies on one field after the other: a separator with
\* an integer first segment, then exactly four decimal digits
RECURSIVE C6_DateFields(_, _)
C6_DateFields(row, keys) ==
    IF keys = <<>> THEN None
    ELSE IF Head(keys) \in DOMAIN row /\ notna(row[Head(keys)])
         THEN LET s == Str(row[Head(keys)])
              IN IF SeparatorScan(s, Separators) # None THEN SeparatorScan(s, Separators)
                 ELSE IF Len(s) = 4 /\ AllDecimal(s) THEN IntV(DigitsValue(s, 0))
                 ELSE C6_DateFields(row, Tail(keys))
         ELSE C6_DateFields(row, Tail(keys))

\* C6: derive_birth_year follows the search order, first success winning: the
\* year fields, then the date fields by separator and by four digits.  A parse
\* failure never aborts: it moves to the next candidate, and the result is
\* None when every candidate fails.
C6_SearchOrderNeverAborts ==
    pc = "return" =>
        /\ ret # ValueError
        /\ ret = IF YearFieldScan(arg, YearKeys) # None THEN YearFieldScan(arg, YearKeys)
                 ELSE C6_DateFields(arg, DateKeys)

\* The name the claim gives a row: the web name when present and not empty,
\* else first and last name joined when either is present, else "Player <id>"
C7_Name(r) ==
    LET field(c) == IF c # NotFound /\ notna(r[c]) THEN strip(Str(r[c])) ELSE <<>>
        web == field(cols.web_col)
        fn == field(cols.first_col)
        sn == field(cols.second_col)
    IN IF web # <<>> THEN web
       ELSE IF fn # <<>> \/ sn # <<>> THEN strip(fn \o <<" ">> \o sn)
       ELSE T("Player ") \o Str(r[cols.player_id_col])

\* C7: the name of every output record follows the priority web name, first
\* and last name, "Player <id>"; so no output record has an empty name.
C7_NamePriority ==
    \A i \in Records :
        /\ out_players[i].name # <<>>
        /\ out_players[i].name = C7_Name(input.players.rows[i])

NullBirthYears(list) == Cardinality({i \in 1..Len(list) : list[i].birthYear = None})

C9_RowOrder ==
    /\ Len(out_players) = p_idx
    /\ \A i \in Records :
          out_players[i].source.playerId = Str(input.players.rows[i][cols.player_id_col])
    /\ out_file.exists => out_file.players = out_players /\ p_idx = Len(input.players.rows)

\* A document written from two rows with different ids
C9_Witness ==
    /\ pc = "done" /\ Len(out_file.players) = 2
    /\ out_file.players[1].source.playerId # out_file.players[2].source.playerId

\* C10: the lower clamps never act.  generate_rating returns at least 174 and
\* differs from the sum of line 73 only where that sum exceeds 238;
\* generate_development returns 80 + noise, in [80,199], for a position other
\* than GK and 70 + noise, in [70,189], for GK.
C10_LowerClampsInactive ==
    pc = "return" =>
        IF arg.fn = "generate_rating"
        THEN /\ ret >= 174
             /\ \/ ret = RawRating(arg.player_id, arg.strength, arg.pos)
                \/ ret = 238 /\ RawRating(arg.player_id, arg.strength, arg.pos) > 238
        ELSE /\ ret = 80 + stable_int(DevSeed(arg.player_id), 120) - (IF arg.pos = GK THEN 10 ELSE 0)
             /\ IF arg.pos = GK THEN ret \in 70..189 ELSE ret \in 80..199

\* The least rating, 174, and it is not the clamp that gives it
C10_Witness ==
    /\ pc = "return" /\ arg.fn = "generate_rating" /\ ret = 174
    /\ RawRating(arg.player_id, arg.strength, arg.pos) = 174

=============================================================================
